---------------------------- MODULE Spec2Model ----------------------------
(***************************************************************************)
(* AX.25 framing, FX.25 wrapping and the Reed-Solomon (255,223) codec of   *)
(* rs-and-fx.25, as state machines.                                        *)
(*                                                                         *)
(*   SpecRS    the RS encoder, the fault injector and the RS decoder       *)
(*   SpecAX    the AX.25 frame builder and packetizer                      *)
(*   SpecFX    the FX.25 wrapper and its batch loop                        *)
(*                                                                         *)
(* C arrays are functions over 0..len-1; bytes are 0..255.                 *)
(***************************************************************************)
EXTENDS Integers, Sequences, FiniteSets, TLC

(***************************************************************************)
(* Program constants.                                                      *)
(***************************************************************************)
N == 255
K == 223
T == 16
PARITY == 32
PRIM_POLY == 285
ALPHA == 2

(***************************************************************************)
(* Bounds of the model.                                                    *)
(***************************************************************************)
\* the most symbols a run of single-bit flips corrupts in one block
MaxFlips == 17

(***************************************************************************)
(* C integer operators.                                                    *)
(***************************************************************************)
RECURSIVE XorBits(_, _)
\* bitwise exclusive or of two naturals, bit by bit
XorBits(a, b) ==
    IF a = 0 THEN b
    ELSE IF b = 0 THEN a
    ELSE (((a % 2) + (b % 2)) % 2) + 2 * XorBits(a \div 2, b \div 2)

\* the 4-bit exclusive-or table
Xor4 == [a \in 0..15 |-> [b \in 0..15 |-> XorBits(a, b)]]

RECURSIVE Xor(_, _)
\* C's a ^ b on non-negative ints, nibble by nibble
Xor(a, b) ==
    IF a = 0 THEN b
    ELSE IF b = 0 THEN a
    ELSE Xor4[a % 16][b % 16] + (16 * Xor(a \div 16, b \div 16))

\* C's a % b for b > 0: the remainder has the sign of a
CRem(a, b) == IF a >= 0 THEN a % b ELSE 0 - ((0 - a) % b)

RECURSIVE XorRange(_, _, _)
\* f[lo] ^ f[lo+1] ^ ... ^ f[hi], the accumulation of a loop of ^=
XorRange(f, lo, hi) ==
    IF lo > hi THEN 0
    ELSE IF lo = hi THEN f[lo]
    ELSE LET mid == (lo + hi) \div 2
         IN  Xor(XorRange(f, lo, mid), XorRange(f, mid + 1, hi))

\* an array as an explicit table of its elements
Arr(f) == f @@ <<>>

VARIABLES
    pc,          \* position of the running program
    layout,      \* what the build placed below gf_exp in memory
    gf_exp,      \* uint8_t gf_exp[512]
    gf_log,      \* uint8_t gf_log[256]
    generator,   \* uint8_t generator[PARITY + 1]
    data,        \* the K-byte block handed to rs_encode_block
    codeword,    \* the encoder's output
    received,    \* the block the decoder reads
    nerr,        \* symbols of received that differ from codeword
    syndromes,   \* rs_decode_block: syndromes[PARITY]
    lambda,      \* rs_decode_block: lambda[PARITY + 1]
    omega,       \* rs_decode_block: omega[PARITY]
    deg_lambda,  \* rs_decode_block: deg_lambda
    corrected,   \* rs_decode_block: the corrected output block
    status,      \* rs_decode_block: the returned value
    config,      \* ax25_packet.c: the ax25_config_t in use
    data_buffer, \* ax25_packet.c main: the bytes read from input.txt
    packet,      \* packetization: the loop counter
    packets_txt, \* the frames written to packets.txt, in order
    args,        \* the arguments of the last direct call of a frame builder
    frame_buffer,\* the caller's buffer after that call, up to the length
    crc_state,   \* calculate_crc: i, the bytes and the register crc
    crc_result,  \* calculate_crc: the returned value
    ax25_packets,\* fx25_packet.c main: the frames read from packets.txt
    fx_i,        \* fx25_packet.c main: the loop counter i
    fx25_count,  \* fx25_packet.c main: fx25_count
    fx_call,     \* the last call of generate_fx25: the frame passed and
                 \* the output buffer before the call
    fx25_frame,  \* the bytes generate_fx25 wrote to its output buffer
    fx25_len,    \* the value generate_fx25 returned
    fx25_txt,    \* the frames written to fx25_packets.txt, in order
    warnings,    \* the indexes i reported by "Warning: Failed to encode"
    in_file,     \* decode_file: the bytes of the input file
    in_pos,      \* decode_file: the bytes of it read so far
    total_blocks,\* decode_file: total_blocks
    block_count, \* decode_file: block_count
    corrected_blocks, \* decode_file: corrected_blocks
    failed_blocks,    \* decode_file: failed_blocks
    blocks_log,  \* decode_file: per block read, what was decoded and written
    exit_code,   \* the decoder's exit status
    packets_file \* the text of packets.txt, line by line

rsvars == <<pc, layout, gf_exp, gf_log, generator, data, codeword, received,
            nerr, syndromes, lambda, omega, deg_lambda, corrected, status>>

\* the RS variables but pc
rsvars_data == <<layout, gf_exp, gf_log, generator, data, codeword, received,
                 nerr, syndromes, lambda, omega, deg_lambda, corrected,
                 status>>

axvars == <<config, data_buffer, packet, packets_txt, args, frame_buffer,
            crc_state, crc_result>>

fxvars == <<ax25_packets, fx_i, fx25_count, fx_call, fx25_frame, fx25_len,
            fx25_txt, warnings>>

\* the RS variables an FX.25 run leaves alone
rsvars_block == <<layout, data, codeword, received, nerr, syndromes, lambda,
                  omega, deg_lambda, corrected, status>>

dfvars == <<in_file, in_pos, total_blocks, block_count, corrected_blocks,
            failed_blocks, blocks_log, exit_code>>

pipevars == <<packets_file>>

vars == <<rsvars, axvars, fxvars, dfvars, pipevars>>

RECURSIVE LoopBody(_, _)
RECURSIVE For(_, _, _, _)
\* for (i = lo; i <= hi; i++) body, on a loop state st that holds i; body
\* names the loop (LoopBody has the bodies), and a body that leaves i alone
\* has left the loop.  The range is run in halves, in order, which keeps
\* the evaluation shallow.
For(body, lo, hi, st) ==
    IF lo > hi THEN st
    ELSE IF lo = hi THEN LoopBody(body, st)
    ELSE LET mid == (lo + hi) \div 2
             left == For(body, lo, mid, st)
         IN  IF left.i # mid + 1 THEN left
             ELSE For(body, mid + 1, hi, left)

(***************************************************************************)
(* GF(2^8): rs_encoding_binary.c and rs_decoding_binary.c build the same   *)
(* tables with the same code.                                              *)
(***************************************************************************)
\* first loop of init_galois_field, one iteration
GfFill(st) ==
    LET sh == (st.temp * 2) % 65536
    IN  [i |-> st.i + 1,
         temp |-> IF (sh \div 256) % 2 = 1 THEN Xor(sh, PRIM_POLY) ELSE sh,
         e |-> [st.e EXCEPT ![st.i] = st.temp % 256],
         l |-> [st.l EXCEPT ![st.temp] = st.i]]

\* the second loop copying from 254 places back instead of 255
GfExtendFrom254(st) ==
    [i |-> st.i + 1, e |-> [st.e EXCEPT ![st.i] = st.e[st.i - 254]]]

\* second loop of init_galois_field, one iteration
GfExtend(st) ==
    [i |-> st.i + 1, e |-> [st.e EXCEPT ![st.i] = st.e[st.i - 255]]]

\* the tables init_galois_field leaves behind, from the tables it finds
init_galois_field(e0, l0) ==
    LET a == For("GfFill", 0, 254, [i |-> 0, temp |-> 1, e |-> e0, l |-> l0])
        b == For("GfExtend", 255, 511, [i |-> 255, e |-> a.e])
    IN  [e |-> b.e, l |-> [a.l EXCEPT ![0] = 255]]

\* a read of gf_exp[i]; an index below 0 reads what lies below the table
gf_exp_at(i) ==
    IF i >= 0 THEN gf_exp[i]
    ELSE IF layout = "gf_log" THEN gf_log[256 + i]
    ELSE 0

gf_mult(a, b) ==
    IF a = 0 \/ b = 0 THEN 0 ELSE gf_exp_at(gf_log[a] + gf_log[b])

\* the decoder's gf_div
gf_div(a, b) ==
    IF b = 0 THEN 0
    ELSE IF a = 0 THEN 0
    ELSE gf_exp_at(gf_log[a] + 255 - gf_log[b])

\* the index at which gf_pow reads gf_exp for a base other than 0; C's %
\* keeps the sign of a negative exponent
gf_pow_index(base, exp) == CRem(gf_log[base] * exp, 255)

gf_pow(base, exp) ==
    IF base = 0 THEN (IF exp = 0 THEN 1 ELSE 0)
    ELSE gf_exp_at(gf_pow_index(base, exp))


(***************************************************************************)
(* The encoder: rs_encoding_binary.c.                                      *)
(***************************************************************************)
\* generate_polynomial, one iteration: g times (x - alpha^i)
GenStep(st) ==
    LET alpha_i == gf_pow(ALPHA, st.i)
    IN  [i |-> st.i + 1,
         g |-> Arr([j \in 0..PARITY |->
                      IF j = 0 THEN gf_mult(st.g[0], alpha_i)
                      ELSE IF j <= st.i + 1
                           THEN Xor(st.g[j - 1], gf_mult(st.g[j], alpha_i))
                           ELSE st.g[j]])]

generate_polynomial ==
    For("GenStep", 0, PARITY - 1,
        [i |-> 0, g |-> [j \in 0..PARITY |-> IF j = 0 THEN 1 ELSE 0]]).g

\* the division loop of rs_encode_block, one data symbol
EncStep(st) ==
    LET feedback == Xor(st.d[st.i], st.remainder[PARITY - 1])
    IN  [i |-> st.i + 1, d |-> st.d,
         remainder |->
            Arr([j \in 0..(PARITY - 1) |->
                   IF j = 0 THEN gf_mult(generator[0], feedback)
                   ELSE Xor(st.remainder[j - 1],
                            gf_mult(generator[j], feedback))])]

\* codeword[N]: the data in [0,K), the register in [K,N)
rs_encode_block(d) ==
    LET r == For("EncStep", 0, K - 1,
                 [i |-> 0, d |-> d,
                  remainder |-> [j \in 0..(PARITY - 1) |-> 0]]).remainder
    IN  Arr([i \in 0..(N - 1) |-> IF i < K THEN d[i] ELSE r[i - K]])

(***************************************************************************)
(* The decoder: rs_decoding_binary.c.                                      *)
(***************************************************************************)
compute_syndromes(r) ==
    Arr([i \in 0..(PARITY - 1) |->
        LET alpha_i == gf_pow(ALPHA, i)
        IN  XorRange([j \in 0..(N - 1) |-> gf_mult(r[j], gf_pow(alpha_i, j))],
                     0, N - 1)])

\* the main loop of berlekamp_massey, one iteration k = st.i
BMStep(st) ==
    LET k == st.i
        disc == Xor(st.s[k],
                    XorRange([i \in 1..st.deg |->
                                 gf_mult(st.lambda[i], st.s[k - i])],
                             1, st.deg))
        shift == k - st.deg_prev
        lam2 == Arr([p \in 0..PARITY |->
                       IF /\ p - shift >= 0
                          /\ p - shift <= st.deg_prev
                          /\ st.prev[p - shift] # 0
                       THEN Xor(st.lambda[p],
                                gf_mult(disc, st.prev[p - shift]))
                       ELSE st.lambda[p]])
        new_deg == st.deg_prev + (k - st.deg_prev)
        inv_disc == gf_exp_at(255 - gf_log[disc])
    IN  IF disc = 0 THEN [st EXCEPT !.i = k + 1]
        ELSE IF new_deg > st.deg
        THEN [i |-> k + 1, s |-> st.s, lambda |-> lam2,
              prev |-> Arr([i \in 0..PARITY |->
                              gf_mult(st.lambda[i], inv_disc)]),
              deg |-> new_deg, deg_prev |-> k - new_deg]
        ELSE [st EXCEPT !.i = k + 1, !.lambda = lam2]

\* lambda, omega and the returned degree
berlekamp_massey(s) ==
    LET unit == [i \in 0..PARITY |-> IF i = 0 THEN 1 ELSE 0]
        bm == For("BMStep", 0, PARITY - 1,
                  [i |-> 0, s |-> s, lambda |-> unit, prev |-> unit,
                   deg |-> 0, deg_prev |-> 0])
        min(a, b) == IF a < b THEN a ELSE b
    IN  [lambda |-> bm.lambda,
         deg |-> bm.deg,
         omega |-> Arr([i \in 0..(PARITY - 1) |->
                      XorRange([j \in 0..min(bm.deg, i) |->
                                   gf_mult(s[i - j], bm.lambda[j])],
                               0, min(bm.deg, i))])]

\* Lambda evaluated at alpha^(-i), as the Chien loop computes it
ChienSum(lam, deg, i) ==
    XorRange([j \in 0..deg |->
                 IF lam[j] # 0
                 THEN gf_mult(lam[j], gf_pow(ALPHA, CRem(255 - i * j, 255)))
                 ELSE 0],
             0, deg)

\* the value XORed into corrected[i] at a root of Lambda
ForneyValue(lam, om, deg, i) ==
    LET alpha_inv_i == gf_pow(ALPHA, CRem(255 - i, 255))
        omega_val == XorRange([j \in 0..(PARITY - 1) |->
                                  IF om[j] # 0
                                  THEN gf_mult(om[j], gf_pow(alpha_inv_i, j))
                                  ELSE 0],
                              0, PARITY - 1)
        lambda_prime == XorRange([j \in 1..deg |->
                                     IF j % 2 = 1 /\ lam[j] # 0
                                     THEN gf_mult(lam[j],
                                                  gf_pow(alpha_inv_i, j - 1))
                                     ELSE 0],
                                 1, deg)
    IN  IF lambda_prime # 0 THEN gf_div(omega_val, lambda_prime) ELSE 0

\* the loop of find_and_correct_errors, one position i = st.i; the early
\* return leaves the loop with returned set
ChienStep(st) ==
    IF ChienSum(st.lambda, st.deg, st.i) # 0 THEN [st EXCEPT !.i = st.i + 1]
    ELSE IF st.error_count + 1 > T
    THEN [st EXCEPT !.error_count = st.error_count + 1, !.returned = TRUE]
    ELSE [st EXCEPT !.i = st.i + 1,
                    !.error_count = st.error_count + 1,
                    !.corrected[st.i] =
                        Xor(@, ForneyValue(st.lambda, st.omega, st.deg, st.i))]

\* find_and_correct_errors returning the number of roots found without
\* the final comparison with deg_lambda
find_and_correct_errors_unvalidated(lam, om, deg, corr) ==
    LET st == For("ChienStep", 0, N - 1,
                  [i |-> 0, lambda |-> lam, omega |-> om, deg |-> deg,
                   error_count |-> 0, corrected |-> corr, returned |-> FALSE])
    IN  [status |-> IF st.returned THEN 0 - 1 ELSE st.error_count,
         corrected |-> st.corrected,
         error_count |-> st.error_count]

find_and_correct_errors(lam, om, deg, corr) ==
    LET st == For("ChienStep", 0, N - 1,
                  [i |-> 0, lambda |-> lam, omega |-> om, deg |-> deg,
                   error_count |-> 0, corrected |-> corr, returned |-> FALSE])
    IN  [status |-> IF st.returned THEN 0 - 1
                    ELSE IF st.error_count = deg THEN st.error_count
                    ELSE 0 - 1,
         corrected |-> st.corrected,
         error_count |-> st.error_count]

\* status, corrected block and the locals of the call
rs_decode_block(r) ==
    LET s == compute_syndromes(r)
        has_errors == \E i \in 0..(PARITY - 1) : s[i] # 0
        bm == berlekamp_massey(s)
        fc == find_and_correct_errors(bm.lambda, bm.omega, bm.deg, r)
    IN  IF ~has_errors
        THEN [status |-> 0, corrected |-> r, syndromes |-> s,
              lambda |-> [i \in 0..PARITY |-> 0],
              omega |-> [i \in 0..(PARITY - 1) |-> 0], deg |-> 0]
        ELSE IF bm.deg = 0
        THEN [status |-> 0, corrected |-> r, syndromes |-> s,
              lambda |-> bm.lambda, omega |-> bm.omega, deg |-> 0]
        ELSE [status |-> fc.status, corrected |-> fc.corrected,
              syndromes |-> s, lambda |-> bm.lambda, omega |-> bm.omega,
              deg |-> bm.deg]

(***************************************************************************)
(* The three programs do not share state: a program's variables rest      *)
(* while another runs.                                                     *)
(***************************************************************************)
RSIdle ==
    /\ layout = "zero"
    /\ gf_exp = [i \in 0..511 |-> 0]
    /\ gf_log = [i \in 0..255 |-> 0]
    /\ generator = [i \in 0..PARITY |-> 0]
    /\ data = <<>>
    /\ codeword = <<>>
    /\ received = <<>>
    /\ nerr = 0
    /\ syndromes = <<>>
    /\ lambda = <<>>
    /\ omega = <<>>
    /\ deg_lambda = 0
    /\ corrected = <<>>
    /\ status = 0

AXIdle ==
    /\ config = <<>>
    /\ data_buffer = <<>>
    /\ packet = 0
    /\ packets_txt = <<>>
    /\ args = <<>>
    /\ frame_buffer = <<>>
    /\ crc_state = <<>>
    /\ crc_result = 0

DFIdle ==
    /\ in_file = <<>>
    /\ in_pos = 0
    /\ total_blocks = 0
    /\ block_count = 0
    /\ corrected_blocks = 0
    /\ failed_blocks = 0
    /\ blocks_log = <<>>
    /\ exit_code = 0

PipeIdle == packets_file = <<>>

FXIdle ==
    /\ ax25_packets = <<>>
    /\ fx_i = 0
    /\ fx25_count = 0
    /\ fx_call = <<>>
    /\ fx25_frame = <<>>
    /\ fx25_len = 0
    /\ fx25_txt = <<>>
    /\ warnings = <<>>

(***************************************************************************)
(* Inputs of the RS pipeline.                                              *)
(***************************************************************************)
\* what a build may place below gf_exp: gf_log (gcc -O2) or zero bytes
\* (gcc -O0)
Layouts == {"gf_log", "zero"}

\* the K-byte blocks fed to the encoder: all zero, a single 1 in the last
\* symbol, and the incrementing block 0..222
Blocks ==
    { [i \in 0..(K - 1) |-> 0],
      [i \in 0..(K - 1) |-> IF i = K - 1 THEN 1 ELSE 0],
      [i \in 0..(K - 1) |-> i] }

ZeroBlock == [i \in 0..(N - 1) |-> 0]

\* the offsets hit by a burst
BurstAt == {5, 20, 60, 99, 150, 200, 220}

\* the blocks the channel may deliver in place of the codeword cw:
\*   bit 0 flipped (the injector's c ^= 1) in n symbols, from offset 100 on
\*   in steps of 9; the seven symbols of BurstAt hit with A5; every symbol
\*   lost (the all-zero block)
Faulty(cw) ==
    { [p \in 0..(N - 1) |->
         IF \E k \in 0..(n - 1) : p = (100 + 9 * k) % N
         THEN Xor(cw[p], 1) ELSE cw[p]] : n \in 1..MaxFlips }
    \cup { [p \in 0..(N - 1) |-> IF p \in BurstAt THEN Xor(cw[p], 165)
                                  ELSE cw[p]] }
    \cup { ZeroBlock }

\* the number of symbols in which two blocks differ
Distance(a, b) == Cardinality({p \in 0..(N - 1) : a[p] # b[p]})

RSInit ==
    /\ pc = "boot"
    /\ layout \in Layouts
    /\ gf_exp = [i \in 0..511 |-> 0]
    /\ gf_log = [i \in 0..255 |-> 0]
    /\ generator = [i \in 0..PARITY |-> 0]
    /\ data = [i \in 0..(K - 1) |-> 0]
    /\ codeword = ZeroBlock
    /\ received = ZeroBlock
    /\ nerr = 0
    /\ syndromes = [i \in 0..(PARITY - 1) |-> 0]
    /\ lambda = [i \in 0..PARITY |-> 0]
    /\ omega = [i \in 0..(PARITY - 1) |-> 0]
    /\ deg_lambda = 0
    /\ corrected = ZeroBlock
    /\ status = 0
    /\ AXIdle
    /\ FXIdle
    /\ DFIdle
    /\ PipeIdle

\* main: init_galois_field()
InitGaloisField ==
    /\ pc = "boot"
    /\ LET t == init_galois_field(gf_exp, gf_log)
       IN  /\ gf_exp' = t.e
           /\ gf_log' = t.l
    /\ pc' = "gf"
    /\ UNCHANGED <<layout, generator, data, codeword, received, nerr,
                   syndromes, lambda, omega, deg_lambda, corrected, status>>
    /\ UNCHANGED <<axvars, fxvars, dfvars, pipevars>>

\* encoder main: generate_polynomial()
GeneratePolynomial ==
    /\ pc = "gf"
    /\ generator' = generate_polynomial
    /\ pc' = "ready"
    /\ UNCHANGED <<layout, gf_exp, gf_log, data, codeword, received, nerr,
                   syndromes, lambda, omega, deg_lambda, corrected, status>>
    /\ UNCHANGED <<axvars, fxvars, dfvars, pipevars>>

\* encode_file: one block through rs_encode_block, written to the channel
Encode ==
    /\ pc = "ready"
    /\ \E d \in Blocks :
          /\ data' = d
          /\ \E cw \in {rs_encode_block(d)} :
                /\ codeword' = cw
                /\ received' = cw
    /\ nerr' = 0
    /\ pc' = "channel"
    /\ UNCHANGED <<layout, gf_exp, gf_log, generator, syndromes, lambda,
                   omega, deg_lambda, corrected, status>>
    /\ UNCHANGED <<axvars, fxvars, dfvars, pipevars>>

\* the channel and the fault injector: the block reaches the decoder
\* with some of its symbols changed
Corrupt ==
    /\ pc = "channel"
    /\ nerr = 0
    /\ \E w \in Faulty(codeword) :
          /\ w # codeword
          /\ received' = w
          /\ nerr' = Distance(w, codeword)
    /\ UNCHANGED <<pc, layout, gf_exp, gf_log, generator, data, codeword,
                   syndromes, lambda, omega, deg_lambda, corrected, status>>
    /\ UNCHANGED <<axvars, fxvars, dfvars, pipevars>>

\* decode_file: one block through rs_decode_block
Decode ==
    /\ pc = "channel"
    /\ \E r \in {rs_decode_block(received)} :
           /\ status' = r.status
           /\ corrected' = r.corrected
           /\ syndromes' = r.syndromes
           /\ lambda' = r.lambda
           /\ omega' = r.omega
           /\ deg_lambda' = r.deg
    /\ pc' = "decoded"
    /\ UNCHANGED <<layout, gf_exp, gf_log, generator, data, codeword,
                   received, nerr>>
    /\ UNCHANGED <<axvars, fxvars, dfvars, pipevars>>

RSNext ==
    \/ InitGaloisField
    \/ GeneratePolynomial
    \/ Encode
    \/ Corrupt
    \/ Decode

SpecRS == RSInit /\ [][RSNext]_vars

(***************************************************************************)
(* Properties of the RS pipeline.                                          *)
(***************************************************************************)
\* the block 0, 1, ..., 222
BlockS3 == [i \in 0..(K - 1) |-> i]

\* the number of roots the Chien loop finds for the locator of the last
\* decode
RootCount ==
    Cardinality({i \in 0..(N - 1) : ChienSum(lambda, deg_lambda, i) = 0})

\* C1: the decoder, given the encoder's own codeword, returns status 0 and
\* a corrected word equal to that codeword.
C1_EncoderDecoderIdentity ==
    (pc = "decoded" /\ nerr = 0) => (status = 0 /\ corrected = codeword)

\* C2: when between 1 and T symbols of the codeword are changed, the decoder
\* outputs the codeword and returns the number of changed symbols.
C2_CorrectsUpToT ==
    (pc = "decoded" /\ nerr \in 1..T) =>
        (corrected = codeword /\ status = nerr)

\* C3 as stated: when more than T symbols of the codeword are changed, the
\* decoder returns -1.
C3_BeyondCapabilityAlwaysFails ==
    (pc = "decoded" /\ nerr > T) => status = 0 - 1

\* C3 as amended: when more than T symbols of the codeword are changed, the
\* decoder returns -1 unless the received word passes the decoder's own
\* tests: it returns 0, the word unchanged, when all syndromes are zero or
\* the locator has degree 0, and d in 1..T when the locator has degree d and
\* the Chien loop finds exactly d roots. Bit 0 flipped in 17 symbols of the
\* codeword of the block 0..222 gives -1.
C3_BeyondCapability ==
    (pc = "decoded" /\ nerr > T) =>
        /\ \/ status = 0 - 1
           \/ /\ status = 0
              /\ corrected = received
              /\ \/ \A i \in 0..(PARITY - 1) : syndromes[i] = 0
                 \/ deg_lambda = 0
           \/ /\ status \in 1..T
              /\ deg_lambda = status
              /\ RootCount = status
        /\ (data = BlockS3 /\ nerr = T + 1 /\ received # ZeroBlock)
               => status = 0 - 1

\* 17 symbols of the codeword of the block 0..222 were changed and the
\* decoder returned -1
C3_Witness ==
    /\ pc = "decoded"
    /\ data = BlockS3
    /\ nerr = T + 1
    /\ received # ZeroBlock
    /\ status = 0 - 1

(***************************************************************************)
(* AX.25: ax25_packet.c.  Buffers and strings are sequences of bytes;      *)
(* offset k of the C buffer is element k + 1.                              *)
(***************************************************************************)
AX25_FLAG == 126
AX_25_CONTROL == 3
PID_NoL3 == 240
MAX_PAYLOAD == 256

BEACON_FRAME == 0
FRAME_DATA_HEADER == 1
FRAME_DATA_FIRST == 2
FRAME_DATA == 3
FRAME_DATA_END == 4
FRAME_MESSAGE == 5

\* out[0..6] of encode_address; bit 0 of ssid << 1 is clear, so | last adds
\* encode_address filling a short callsign with zero bytes
encode_address_zero_filled(callsign, ssid, last) ==
    [i \in 1..6 |-> IF i <= Len(callsign) THEN (callsign[i] * 2) % 256
                    ELSE 0]
    \o <<(ssid * 2 + (IF last # 0 THEN 1 ELSE 0)) % 256>>

encode_address(callsign, ssid, last) ==
    [i \in 1..6 |-> IF i <= Len(callsign) THEN (callsign[i] * 2) % 256
                    ELSE (32 * 2) % 256]
    \o <<(ssid * 2 + (IF last # 0 THEN 1 ELSE 0)) % 256>>

RECURSIVE CrcBits(_, _)
\* the inner loop of calculate_crc: j further shifts of the register
CrcBits(crc, j) ==
    IF j = 0 THEN crc
    ELSE CrcBits(IF (crc \div 32768) % 2 = 1
                 THEN Xor(crc * 2, 4129) % 65536
                 ELSE (crc * 2) % 65536,
                 j - 1)

\* the outer loop of calculate_crc, one byte
CrcByte(st) ==
    [i |-> st.i + 1, bytes |-> st.bytes,
     crc |-> CrcBits(Xor(st.crc, st.bytes[st.i + 1] * 256), 8)]

\* the bodies of the loops run by For
LoopBody(body, st) ==
    CASE body = "GfFill" -> GfFill(st)
      [] body = "GfExtend" -> GfExtend(st)
      [] body = "GenStep" -> GenStep(st)
      [] body = "EncStep" -> EncStep(st)
      [] body = "BMStep" -> BMStep(st)
      [] body = "ChienStep" -> ChienStep(st)
      [] body = "CrcByte" -> CrcByte(st)

\* calculate_crc: the state before the loop, and the returned value
CrcStart(bytes) == [i |-> 0, bytes |-> bytes, crc |-> 65535]
\* calculate_crc returning the register as it is
CrcReturnRegister(st) == st.crc
CrcReturn(st) == Xor(st.crc, 65535) % 65536

\* calculate_crc over the bytes of a buffer
calculate_crc(bytes) ==
    CrcReturn(For("CrcByte", 0, Len(bytes) - 1, CrcStart(bytes)))

\* buffer[0..4] of frame_header
frame_header(type, sequence, total) ==
    <<type % 256, (sequence \div 256) % 256, sequence % 256,
      (total \div 256) % 256, total % 256>>

\* frame_gen with the FCS computed from frame_buffer[0], the opening flag
frame_gen_fcs_from_flag(cfg, type, sequence, total, payload) ==
    LET body == encode_address(cfg.dest_call, cfg.dest, 0)
                \o encode_address(cfg.source_call, cfg.source, 1)
                \o <<AX_25_CONTROL, PID_NoL3>>
                \o (IF type # FRAME_MESSAGE
                    THEN frame_header(type, sequence % 65536, total % 65536)
                    ELSE <<>>)
                \o payload
        fcs == calculate_crc(<<AX25_FLAG>> \o body)
    IN  <<AX25_FLAG>> \o body \o <<fcs % 256, (fcs \div 256) % 256>>
        \o <<AX25_FLAG>>

\* frame_buffer[0..position-1] as frame_gen leaves it; its length is the
\* returned position
frame_gen(cfg, type, sequence, total, payload) ==
    LET body == encode_address(cfg.dest_call, cfg.dest, 0)
                \o encode_address(cfg.source_call, cfg.source, 1)
                \o <<AX_25_CONTROL, PID_NoL3>>
                \o (IF type # FRAME_MESSAGE
                    THEN frame_header(type, sequence % 65536, total % 65536)
                    ELSE <<>>)
                \o payload
        fcs == calculate_crc(body)
    IN  <<AX25_FLAG>> \o body \o <<fcs % 256, (fcs \div 256) % 256>>
        \o <<AX25_FLAG>>

create_beacon_frame(cfg, message) ==
    frame_gen(cfg, BEACON_FRAME, 0, 1, message)

create_message_frame(cfg, message) ==
    frame_gen(cfg, FRAME_MESSAGE, 0, 1, message)

\* total_packets without the rounding up
TotalPacketsRoundedDown(data_length) == data_length \div MAX_PAYLOAD

\* packetization: total_packets
TotalPackets(data_length) == (data_length + MAX_PAYLOAD - 1) \div MAX_PAYLOAD

\* packetization taking the last chunk's size as data_length % MAX_PAYLOAD
PacketFrameRemainder(cfg, bytes, pk) ==
    LET data_length == Len(bytes)
        total_packets == TotalPackets(data_length)
        data_offset == pk * MAX_PAYLOAD
        chunk_size == IF pk = total_packets - 1
                      THEN data_length % MAX_PAYLOAD ELSE MAX_PAYLOAD
        frame_type == IF total_packets = 1 THEN FRAME_DATA_HEADER
                      ELSE IF pk = 0 THEN FRAME_DATA_FIRST
                      ELSE IF pk = total_packets - 1 THEN FRAME_DATA_END
                      ELSE FRAME_DATA
    IN  frame_gen(cfg, frame_type, pk, total_packets,
                  SubSeq(bytes, data_offset + 1, data_offset + chunk_size))

\* packetization: the frame of loop iteration packet
PacketFrame(cfg, bytes, pk) ==
    LET data_length == Len(bytes)
        total_packets == TotalPackets(data_length)
        data_offset == pk * MAX_PAYLOAD
        chunk_size == IF data_offset + MAX_PAYLOAD > data_length
                      THEN data_length - data_offset ELSE MAX_PAYLOAD
        frame_type == IF total_packets = 1 THEN FRAME_DATA_HEADER
                      ELSE IF pk = 0 THEN FRAME_DATA_FIRST
                      ELSE IF pk = total_packets - 1 THEN FRAME_DATA_END
                      ELSE FRAME_DATA
    IN  frame_gen(cfg, frame_type, pk, total_packets,
                  SubSeq(bytes, data_offset + 1, data_offset + chunk_size))

(***************************************************************************)
(* Inputs and state machine of the AX.25 program.                          *)
(***************************************************************************)
\* the most full chunks of a packetized payload
MaxChunks == 3
\* the most bytes past a chunk boundary
MaxTail == 2

\* "N0CALL", "CQ", "AB1CDEF", "X", "HELLO" as char codes
CallN0CALL == <<78, 48, 67, 65, 76, 76>>
CallCQ == <<67, 81>>
CallLong == <<65, 66, 49, 67, 68, 69, 70>>
CallX == <<88>>
TextHELLO == <<72, 69, 76, 76, 79>>

\* the config of main, and one with a 7-character call and wide SSIDs
MainConfig ==
    [source_call |-> CallN0CALL, dest_call |-> CallCQ, source |-> 0,
     dest |-> 0]

Configs ==
    { MainConfig,
      [source_call |-> CallLong, dest_call |-> CallX, source |-> 15,
       dest |-> 200] }

\* payload bytes: a ramp that repeats every 251 bytes, or zeros
Ramp(len) == [k \in 1..len |-> (k - 1) % 251]
Zeros(len) == [k \in 1..len |-> 0]

\* the payload lengths around the chunk boundaries
Lengths ==
    { q * MAX_PAYLOAD + r : q \in 0..MaxChunks, r \in 0..MaxTail }
    \cup { q * MAX_PAYLOAD - 1 : q \in 1..MaxChunks }

\* the files main may find as input.txt
Inputs == { Ramp(len) : len \in Lengths } \cup { Zeros(len) : len \in Lengths }

\* "123456789" as char codes
TextDigits == <<49, 50, 51, 52, 53, 54, 55, 56, 57>>

\* the buffers handed to calculate_crc directly
CrcInputs == { <<>>, <<0>>, <<255, 255>>, TextHELLO, TextDigits }

\* the payloads, sequence numbers and totals of a direct call of frame_gen
Payloads == { <<>>, TextHELLO, Ramp(MAX_PAYLOAD) }
Numbering == { <<0, 1>>, <<258, 515>>, <<65535, 65535>> }

AXInit ==
    /\ pc = "ax_start"
    /\ config \in Configs
    /\ data_buffer = <<>>
    /\ packet = 0
    /\ packets_txt = <<>>
    /\ args = <<>>
    /\ frame_buffer = <<>>
    /\ crc_state = <<>>
    /\ crc_result = 0
    /\ RSIdle
    /\ FXIdle
    /\ DFIdle
    /\ PipeIdle

\* a caller builds one frame with frame_gen
FrameGen ==
    /\ pc = "ax_start"
    /\ \E type \in BEACON_FRAME..FRAME_MESSAGE, num \in Numbering,
          payload \in Payloads :
          /\ args' = [fn |-> "frame_gen", type |-> type,
                      sequence |-> num[1], total |-> num[2],
                      payload |-> payload]
          /\ frame_buffer' = frame_gen(config, type, num[1], num[2], payload)
    /\ pc' = "ax_built"
    /\ UNCHANGED <<config, data_buffer, packet, packets_txt, crc_state,
                   crc_result>>
    /\ UNCHANGED <<rsvars_data, fxvars, dfvars, pipevars>>

\* a caller builds a beacon with create_beacon_frame
CreateBeacon ==
    /\ pc = "ax_start"
    /\ \E message \in Payloads :
          /\ args' = [fn |-> "create_beacon_frame", message |-> message]
          /\ frame_buffer' = create_beacon_frame(config, message)
    /\ pc' = "ax_built"
    /\ UNCHANGED <<config, data_buffer, packet, packets_txt, crc_state,
                   crc_result>>
    /\ UNCHANGED <<rsvars_data, fxvars, dfvars, pipevars>>

\* a caller builds a message frame with create_message_frame
CreateMessage ==
    /\ pc = "ax_start"
    /\ \E message \in Payloads :
          /\ args' = [fn |-> "create_message_frame", message |-> message]
          /\ frame_buffer' = create_message_frame(config, message)
    /\ pc' = "ax_built"
    /\ UNCHANGED <<config, data_buffer, packet, packets_txt, crc_state,
                   crc_result>>
    /\ UNCHANGED <<rsvars_data, fxvars, dfvars, pipevars>>

\* a caller enters calculate_crc
CalculateCrc ==
    /\ pc = "ax_start"
    /\ \E bytes \in CrcInputs : crc_state' = CrcStart(bytes)
    /\ pc' = "ax_crc"
    /\ UNCHANGED <<config, data_buffer, packet, packets_txt, args,
                   frame_buffer, crc_result>>
    /\ UNCHANGED <<rsvars_data, fxvars, dfvars, pipevars>>

\* calculate_crc: one iteration of the outer loop
CalculateCrcByte ==
    /\ pc = "ax_crc"
    /\ crc_state.i < Len(crc_state.bytes)
    /\ crc_state' = CrcByte(crc_state)
    /\ UNCHANGED <<pc, config, data_buffer, packet, packets_txt, args,
                   frame_buffer, crc_result>>
    /\ UNCHANGED <<rsvars_data, fxvars, dfvars, pipevars>>

\* calculate_crc returns
CalculateCrcReturn ==
    /\ pc = "ax_crc"
    /\ crc_state.i >= Len(crc_state.bytes)
    /\ crc_result' = CrcReturn(crc_state)
    /\ pc' = "ax_crc_done"
    /\ UNCHANGED <<config, data_buffer, packet, packets_txt, args,
                   frame_buffer, crc_state>>
    /\ UNCHANGED <<rsvars_data, fxvars, dfvars, pipevars>>

\* main: input.txt is read; an empty file ends the program with 1
ReadInput ==
    /\ pc = "ax_start"
    /\ config = MainConfig
    /\ \E file \in Inputs :
          /\ data_buffer' = file
          /\ pc' = IF Len(file) <= 0 THEN "ax_failed" ELSE "ax_packetizing"
    /\ packet' = 0
    /\ UNCHANGED <<config, packets_txt, args, frame_buffer, crc_state,
                   crc_result>>
    /\ UNCHANGED <<rsvars_data, fxvars, dfvars, pipevars>>

\* packetization: one iteration of the loop writes one frame
PacketizeStep ==
    /\ pc = "ax_packetizing"
    /\ packet < TotalPackets(Len(data_buffer))
    /\ packets_txt' = Append(packets_txt,
                             PacketFrame(config, data_buffer, packet))
    /\ packet' = packet + 1
    /\ UNCHANGED <<pc, config, data_buffer, args, frame_buffer, crc_state,
                   crc_result>>
    /\ UNCHANGED <<rsvars_data, fxvars, dfvars, pipevars>>

\* packetization returns total_packets
PacketizeDone ==
    /\ pc = "ax_packetizing"
    /\ packet >= TotalPackets(Len(data_buffer))
    /\ pc' = "ax_done"
    /\ UNCHANGED <<config, data_buffer, packet, packets_txt, args,
                   frame_buffer, crc_state, crc_result>>
    /\ UNCHANGED <<rsvars_data, fxvars, dfvars, pipevars>>

AXNext ==
    \/ CalculateCrc
    \/ CalculateCrcByte
    \/ CalculateCrcReturn
    \/ FrameGen
    \/ CreateBeacon
    \/ CreateMessage
    \/ ReadInput
    \/ PacketizeStep
    \/ PacketizeDone

SpecAX == AXInit /\ [][AXNext]_vars

(***************************************************************************)
(* Properties of the AX.25 program.                                        *)
(***************************************************************************)
\* the fields of a frame that carries a fragment header
FrameType(f) == f[18]
FrameSequence(f) == f[19] * 256 + f[20]
FrameTotal(f) == f[21] * 256 + f[22]
FrameChunk(f) == SubSeq(f, 23, Len(f) - 3)

\* ceil(len / 256), by its defining inequalities
CeilOfChunks(len) ==
    CHOOSE t \in 0..len : (t - 1) * 256 < len /\ len <= t * 256

\* the payload chunks of a list of frames, joined in order
RECURSIVE JoinChunks(_)
JoinChunks(frames) ==
    IF frames = <<>> THEN <<>>
    ELSE FrameChunk(Head(frames)) \o JoinChunks(Tail(frames))

\* C4 as stated: calculate_crc of "123456789" is 0x29B1.
C4_CrcIs29B1 ==
    (pc = "ax_crc_done" /\ crc_state.bytes = TextDigits)
        => crc_result = 10673

\* C4 as amended: calculate_crc of "123456789" is 0xD64E, which is 0x29B1
\* with the final XOR 0xFFFF applied, and the register stays within 16 bits
\* after every shift.
C4_CrcTestVector ==
    /\ (pc = "ax_crc_done" /\ crc_state.bytes = TextDigits)
           => crc_result = 54862
    /\ pc \in {"ax_crc", "ax_crc_done"} => crc_state.crc \in 0..65535
    /\ (pc = "ax_crc" /\ crc_state.i < Len(crc_state.bytes)) =>
           \A j \in 0..8 :
               CrcBits(Xor(crc_state.crc,
                           crc_state.bytes[crc_state.i + 1] * 256), j)
                   \in 0..65535

\* calculate_crc has returned for "123456789"
C4_Witness ==
    /\ pc = "ax_crc_done"
    /\ crc_state.bytes = TextDigits
    /\ crc_state.i = 9
    /\ crc_result = 54862

\* C5: packetization of L >= 1 bytes writes ceil(L / 256) frames in order;
\* frame i carries sequence i and that total, and its type is DATA_HEADER
\* when there is one frame, else DATA_FIRST for the first, DATA_END for the
\* last and DATA in between.
C5_Sequencing ==
    pc \in {"ax_packetizing", "ax_done"} =>
        LET total == CeilOfChunks(Len(data_buffer))
        IN  /\ Len(data_buffer) >= 1
            /\ Len(packets_txt) <= total
            /\ pc = "ax_done" => Len(packets_txt) = total
            /\ \A k \in 1..Len(packets_txt) :
                  /\ FrameSequence(packets_txt[k]) = k - 1
                  /\ FrameTotal(packets_txt[k]) = total
                  /\ FrameType(packets_txt[k]) =
                        IF total = 1 THEN FRAME_DATA_HEADER
                        ELSE IF k = 1 THEN FRAME_DATA_FIRST
                        ELSE IF k = total THEN FRAME_DATA_END
                        ELSE FRAME_DATA

\* 513 bytes were packetized into DATA_FIRST, DATA, DATA_END
C5_Witness ==
    /\ pc = "ax_done"
    /\ Len(data_buffer) = 513
    /\ Len(packets_txt) = 3
    /\ FrameType(packets_txt[1]) = FRAME_DATA_FIRST
    /\ FrameType(packets_txt[2]) = FRAME_DATA
    /\ FrameType(packets_txt[3]) = FRAME_DATA_END

\* C6: every frame but the last carries 256 payload bytes, the last between
\* 1 and 256, and the chunks joined in order are the payload.
C6_ChunkingRoundTrip ==
    /\ pc \in {"ax_packetizing", "ax_done"} =>
          /\ \A k \in 1..Len(packets_txt) :
                Len(FrameChunk(packets_txt[k])) \in 1..256
          /\ \A k \in 1..(Len(packets_txt) - 1) :
                Len(FrameChunk(packets_txt[k])) = 256
          /\ JoinChunks(packets_txt) =
                SubSeq(data_buffer, 1, Len(JoinChunks(packets_txt)))
    /\ pc = "ax_done" => JoinChunks(packets_txt) = data_buffer

\* a payload of two full chunks and one byte was packetized
C6_Witness ==
    /\ pc = "ax_done"
    /\ data_buffer = Ramp(2 * MAX_PAYLOAD + 1)
    /\ Len(packets_txt) = 3
    /\ FrameChunk(packets_txt[3]) = <<10>>

\* C7: frame_gen writes the flag, the dest address with bit 0 of its SSID
\* byte clear, the source address with that bit set, control 0x03, PID 0xF0,
\* the 5-byte fragment header exactly when the type is not MESSAGE, the
\* payload, the FCS low byte first and the flag; the FCS is calculate_crc
\* over the bytes between the opening flag and the FCS; the length is
\* 20 + p for MESSAGE and 25 + p otherwise.
C7_FrameLayout ==
    (pc = "ax_built" /\ args.fn = "frame_gen") =>
        LET f == frame_buffer
            p == Len(args.payload)
            h == IF args.type = FRAME_MESSAGE THEN 0 ELSE 5
            shifted(callsign, k) ==
                IF k <= Len(callsign) THEN (callsign[k] * 2) % 256 ELSE 64
        IN  /\ Len(f) = IF args.type = FRAME_MESSAGE THEN 20 + p ELSE 25 + p
            /\ f[1] = 126
            /\ \A k \in 1..6 : f[1 + k] = shifted(config.dest_call, k)
            /\ f[8] % 2 = 0
            /\ f[8] \div 2 = config.dest % 128
            /\ \A k \in 1..6 : f[8 + k] = shifted(config.source_call, k)
            /\ f[15] % 2 = 1
            /\ f[15] \div 2 = config.source % 128
            /\ f[16] = 3
            /\ f[17] = 240
            /\ args.type # FRAME_MESSAGE =>
                  SubSeq(f, 18, 22) =
                      <<args.type, args.sequence \div 256,
                        args.sequence % 256, args.total \div 256,
                        args.total % 256>>
            /\ SubSeq(f, 18 + h, 17 + h + p) = args.payload
            /\ f[Len(f) - 2] + 256 * f[Len(f) - 1] =
                  calculate_crc(SubSeq(f, 2, Len(f) - 3))
            /\ f[Len(f)] = 126

\* frame_gen has built a DATA frame with a full payload, and a MESSAGE
\* frame without the fragment header
C7_Witness ==
    /\ pc = "ax_built"
    /\ args.fn = "frame_gen"
    /\ \/ /\ args.type = FRAME_DATA
          /\ args.sequence = 258
          /\ Len(args.payload) = MAX_PAYLOAD
          /\ Len(frame_buffer) = 281
       \/ /\ args.type = FRAME_MESSAGE
          /\ args.payload = TextHELLO
          /\ Len(frame_buffer) = 25

\* the beacon of scenario S1 has been built
BeaconS1 ==
    /\ pc = "ax_built"
    /\ args.fn = "create_beacon_frame"
    /\ args.message = TextHELLO
    /\ config = MainConfig

\* C8 as stated: the S1 beacon starts 7E A6 84 40 40 40 40 60 9C 60 86 82 98
\* 98 61 03 F0 00 00 00 00 01 48 45 4C 4C 4F, then FCS and 7E, 30 bytes.
C8_BeaconAsStated ==
    BeaconS1 =>
        /\ SubSeq(frame_buffer, 1, 27) =
              <<126, 166, 132, 64, 64, 64, 64, 96, 156, 96, 134, 130, 152,
                152, 97, 3, 240, 0, 0, 0, 0, 1, 72, 69, 76, 76, 79>>
        /\ Len(frame_buffer) = 30
        /\ frame_buffer[30] = 126

\* C8 as amended: the S1 beacon starts 7E 86 A2 40 40 40 40 00 9C 60 86 82
\* 98 98 01 03 F0 00 00 00 00 01 48 45 4C 4C 4F, then the FCS 56 E6 and 7E,
\* 30 bytes.
C8_BeaconS1 ==
    BeaconS1 =>
        /\ SubSeq(frame_buffer, 1, 27) =
              <<126, 134, 162, 64, 64, 64, 64, 0, 156, 96, 134, 130, 152,
                152, 1, 3, 240, 0, 0, 0, 0, 1, 72, 69, 76, 76, 79>>
        /\ SubSeq(frame_buffer, 28, 29) = <<86, 230>>
        /\ Len(frame_buffer) = 30
        /\ frame_buffer[30] = 126

\* the S1 beacon has been built and is 30 bytes long
C8_Witness ==
    /\ BeaconS1
    /\ Len(frame_buffer) = 30

(***************************************************************************)
(* fx25_packet.c: the FX.25 wrapper.                                       *)
(***************************************************************************)
CORRELATION_TAG_SIZE == 8
MAX_FRAME_SIZE == 512
CORR_TAG == <<204, 143, 138, 228, 133, 226, 152, 1>>

\* encode_rs_char(handle, data, parity) of fec.h on a block laid out as
\* generate_fx25 lays it out: data is the block, parity is the block + K.
\* The K symbols at the block's start are read, the PARITY symbols the
\* systematic encoder computes over them are written at offset K.
encode_rs_char(rs_block) ==
    LET cw == rs_encode_block([i \in 0..(K - 1) |-> rs_block[i]])
    IN  Arr([i \in 0..(N - 1) |-> IF i < K THEN rs_block[i] ELSE cw[i]])

\* generate_fx25 calling the encoder before the frame is copied into the
\* block
generate_fx25_parity_first(ax25_packet, frame) ==
    LET ax25_len == Len(ax25_packet)
        zeroed == [i \in 0..(N - 1) |-> 0]
        encoded == encode_rs_char(zeroed)
        rs_block == Arr([i \in 0..(N - 1) |->
                           IF i < ax25_len THEN ax25_packet[i + 1]
                           ELSE encoded[i]])
    IN  IF ax25_len > K
        THEN [len |-> 0, frame |-> frame]
        ELSE [len |-> CORRELATION_TAG_SIZE + N,
              frame |-> Arr([k \in 1..Len(frame) |->
                  IF k <= CORRELATION_TAG_SIZE THEN CORR_TAG[k]
                  ELSE IF k <= CORRELATION_TAG_SIZE + N
                       THEN rs_block[k - CORRELATION_TAG_SIZE - 1]
                       ELSE frame[k]])]

\* generate_fx25 writing the correlation tag before it tests the length
generate_fx25_tag_first(ax25_packet, frame) ==
    LET ax25_len == Len(ax25_packet)
        zeroed == [i \in 0..(N - 1) |-> 0]
        copied == Arr([i \in 0..(N - 1) |->
                         IF i < ax25_len THEN ax25_packet[i + 1]
                         ELSE zeroed[i]])
        rs_block == encode_rs_char(copied)
        tagged == Arr([k \in 1..Len(frame) |->
                         IF k <= CORRELATION_TAG_SIZE THEN CORR_TAG[k]
                         ELSE frame[k]])
    IN  IF ax25_len > K
        THEN [len |-> 0, frame |-> tagged]
        ELSE [len |-> CORRELATION_TAG_SIZE + N,
              frame |-> Arr([k \in 1..Len(frame) |->
                  IF k <= CORRELATION_TAG_SIZE + N
                  THEN IF k <= CORRELATION_TAG_SIZE THEN tagged[k]
                       ELSE rs_block[k - CORRELATION_TAG_SIZE - 1]
                  ELSE frame[k]])]

\* generate_fx25 refusing only what does not fit the whole block of N
\* bytes
generate_fx25_limit_N(ax25_packet, frame) ==
    LET ax25_len == Len(ax25_packet)
        zeroed == [i \in 0..(N - 1) |-> 0]
        copied == Arr([i \in 0..(N - 1) |->
                         IF i < ax25_len THEN ax25_packet[i + 1]
                         ELSE zeroed[i]])
        rs_block == encode_rs_char(copied)
    IN  IF ax25_len > N
        THEN [len |-> 0, frame |-> frame]
        ELSE [len |-> CORRELATION_TAG_SIZE + N,
              frame |-> Arr([k \in 1..Len(frame) |->
                  IF k <= CORRELATION_TAG_SIZE THEN CORR_TAG[k]
                  ELSE IF k <= CORRELATION_TAG_SIZE + N
                       THEN rs_block[k - CORRELATION_TAG_SIZE - 1]
                       ELSE frame[k]])]

\* generate_fx25: the returned length and the output buffer afterwards
generate_fx25(ax25_packet, frame) ==
    LET ax25_len == Len(ax25_packet)
        zeroed == [i \in 0..(N - 1) |-> 0]
        copied == Arr([i \in 0..(N - 1) |->
                         IF i < ax25_len THEN ax25_packet[i + 1]
                         ELSE zeroed[i]])
        rs_block == encode_rs_char(copied)
    IN  IF ax25_len > K
        THEN [len |-> 0, frame |-> frame]
        ELSE [len |-> CORRELATION_TAG_SIZE + N,
              frame |-> Arr([k \in 1..Len(frame) |->
                  IF k <= CORRELATION_TAG_SIZE THEN CORR_TAG[k]
                  ELSE IF k <= CORRELATION_TAG_SIZE + N
                       THEN rs_block[k - CORRELATION_TAG_SIZE - 1]
                       ELSE frame[k]])]

(***************************************************************************)
(* Inputs of the FX.25 wrapper.                                            *)
(***************************************************************************)
\* most frames of a packets.txt
MaxPackets == 2

\* frames of 30, 223, 224 and 281 bytes, as ax25_packet.c writes them
Frames ==
    { frame_gen(MainConfig, BEACON_FRAME, 0, 1, TextHELLO),
      frame_gen(MainConfig, FRAME_DATA, 1, 3, Ramp(K - 25)),
      frame_gen(MainConfig, FRAME_DATA, 1, 3, Ramp(K - 24)),
      frame_gen(MainConfig, FRAME_DATA_HEADER, 0, 3, Ramp(MAX_PAYLOAD)) }

\* the contents of packets.txt
PacketLists == UNION { [1..n -> Frames] : n \in 0..MaxPackets }

\* the frames handed to generate_fx25 by a direct caller
DirectPackets ==
    { <<>>, <<AX25_FLAG>>, Ramp(K), Ramp(K + 1), Ramp(MAX_FRAME_SIZE) }

\* what the output buffer, never initialised by main, may hold
Buffers == { [k \in 1..MAX_FRAME_SIZE |-> 0],
             [k \in 1..MAX_FRAME_SIZE |-> 170] }

(***************************************************************************)
(* fx25_packet.c as a state machine.                                       *)
(***************************************************************************)
FXInit ==
    /\ pc = "fx_start"
    /\ ax25_packets \in PacketLists
    /\ fx25_frame \in Buffers
    /\ fx_i = 0
    /\ fx25_count = 0
    /\ fx_call = <<>>
    /\ fx25_len = 0
    /\ fx25_txt = <<>>
    /\ warnings = <<>>
    /\ RSIdle
    /\ AXIdle
    /\ DFIdle
    /\ PipeIdle

\* fx25_init: the encoder's handle (its field tables and generator)
Fx25Init ==
    /\ pc = "fx_start"
    /\ LET t == init_galois_field(gf_exp, gf_log)
       IN  /\ gf_exp' = t.e
           /\ gf_log' = t.l
    /\ pc' = "fx_tables"
    /\ UNCHANGED <<generator, rsvars_block, axvars, fxvars, dfvars,
                   pipevars>>

Fx25InitGenerator ==
    /\ pc = "fx_tables"
    /\ generator' = generate_polynomial
    /\ pc' = "fx_ready"
    /\ UNCHANGED <<gf_exp, gf_log, rsvars_block, axvars, fxvars, dfvars,
                   pipevars>>

\* a caller hands one frame to generate_fx25
GenerateFx25 ==
    /\ pc = "fx_ready"
    /\ ax25_packets = <<>>
    /\ \E p \in DirectPackets :
         \E r \in {generate_fx25(p, fx25_frame)} :
             /\ fx_call' = [packet |-> p, before |-> fx25_frame]
             /\ fx25_len' = r.len
             /\ fx25_frame' = r.frame
    /\ pc' = "fx_called"
    /\ UNCHANGED <<ax25_packets, fx_i, fx25_count, fx25_txt, warnings>>
    /\ UNCHANGED <<gf_exp, gf_log, generator, rsvars_block, axvars, dfvars,
                   pipevars>>

\* main: read_ax25 has returned packet_count
ReadAx25 ==
    /\ pc = "fx_ready"
    /\ pc' = IF Len(ax25_packets) <= 0 THEN "fx_failed" ELSE "fx_loop"
    /\ UNCHANGED <<gf_exp, gf_log, generator, rsvars_block, axvars, fxvars,
                   dfvars, pipevars>>

\* main: one iteration of the loop over the frames
FxStep ==
    /\ pc = "fx_loop"
    /\ fx_i < Len(ax25_packets)
    /\ \E p \in {ax25_packets[fx_i + 1]} :
       \E r \in {generate_fx25(p, fx25_frame)} :
           /\ fx_call' = [packet |-> p, before |-> fx25_frame]
           /\ fx25_len' = r.len
           /\ fx25_frame' = r.frame
           /\ IF r.len > 0
              THEN /\ fx25_txt' = Append(fx25_txt,
                        [packet_num |-> fx25_count, length |-> r.len,
                         frame |-> SubSeq(r.frame, 1, r.len)])
                   /\ fx25_count' = fx25_count + 1
                   /\ UNCHANGED warnings
              ELSE /\ warnings' = Append(warnings,
                        [i |-> fx_i, length |-> Len(p)])
                   /\ UNCHANGED <<fx25_txt, fx25_count>>
    /\ fx_i' = fx_i + 1
    /\ UNCHANGED <<pc, ax25_packets>>
    /\ UNCHANGED <<gf_exp, gf_log, generator, rsvars_block, axvars, dfvars,
                   pipevars>>

\* main: the loop is over, the program returns 0
FxDone ==
    /\ pc = "fx_loop"
    /\ fx_i >= Len(ax25_packets)
    /\ pc' = "fx_done"
    /\ UNCHANGED <<gf_exp, gf_log, generator, rsvars_block, axvars, fxvars,
                   dfvars, pipevars>>

FXNext ==
    \/ Fx25Init
    \/ Fx25InitGenerator
    \/ GenerateFx25
    \/ ReadAx25
    \/ FxStep
    \/ FxDone

SpecFX == FXInit /\ [][FXNext]_vars

(***************************************************************************)
(* Properties of the FX.25 wrapper.                                        *)
(***************************************************************************)
\* the bytes of f are the tag, the frame p and zeros up to the 223rd data
\* byte
Wraps(f, p) ==
    /\ SubSeq(f, 1, 8) = <<204, 143, 138, 228, 133, 226, 152, 1>>
    /\ SubSeq(f, 9, 8 + Len(p)) = p
    /\ \A k \in (9 + Len(p))..(8 + 223) : f[k] = 0

\* the bytes [8 + 223, 8 + 255) of f are the parity the RS encoder computes
\* over the bytes [8, 8 + 223) of f
ParityOverData(f) ==
    LET cw == rs_encode_block([i \in 0..222 |-> f[9 + i]])
    IN  \A i \in 223..254 : f[9 + i] = cw[i]

\* C9: generate_fx25 on a frame of 0..223 bytes returns 263 and writes the
\* correlation tag, the frame unchanged, zeros up to the 223rd data byte
\* and the 32 parity symbols of exactly those 223 bytes.
C9_Fx25Wrapping ==
    (fx_call # <<>> /\ Len(fx_call.packet) <= 223) =>
        /\ fx25_len = 263
        /\ Wraps(fx25_frame, fx_call.packet)
        /\ ParityOverData(fx25_frame)

\* the 30-byte beacon of S1 has been wrapped by the batch loop
C9_Witness ==
    /\ pc = "fx_loop"
    /\ fx_call # <<>>
    /\ fx_call.packet = frame_gen(MainConfig, BEACON_FRAME, 0, 1, TextHELLO)
    /\ fx25_len = 263
    /\ fx25_frame[9 + 223] # 0

Fits(p) == Len(p) <= 223

\* C10: generate_fx25 on a frame of more than 223 bytes returns 0 and
\* leaves the output buffer as it was; the batch loop skips that frame
\* only: the frames of at most 223 bytes are wrapped and written in input
\* order, and fx25_count is their number.
C10_OversizeRejection ==
    /\ (fx_call # <<>> /\ Len(fx_call.packet) > 223) =>
          /\ fx25_len = 0
          /\ fx25_frame = fx_call.before
    /\ pc \in {"fx_loop", "fx_done"} =>
          LET seen == SubSeq(ax25_packets, 1, fx_i)
              fit == SelectSeq(seen, Fits)
          IN  /\ pc = "fx_done" => fx_i = Len(ax25_packets)
              /\ fx25_count = Len(fit)
              /\ Len(fx25_txt) = Len(fit)
              /\ \A k \in 1..Len(fit) :
                    /\ fx25_txt[k].packet_num = k - 1
                    /\ fx25_txt[k].length = 263
                    /\ Len(fx25_txt[k].frame) = 263
                    /\ Wraps(fx25_txt[k].frame, fit[k])
              /\ Len(warnings) = fx_i - Len(fit)
              /\ \A k \in 1..Len(warnings) :
                    /\ ~Fits(ax25_packets[warnings[k].i + 1])
                    /\ k > 1 => warnings[k - 1].i < warnings[k].i

\* a batch whose first frame is too long and whose second fits has ended
\* with one FX.25 frame written
C10_Witness ==
    /\ pc = "fx_done"
    /\ Len(ax25_packets) = 2
    /\ ~Fits(ax25_packets[1])
    /\ Fits(ax25_packets[2])
    /\ fx25_count = 1
    /\ Len(fx25_txt) = 1
    /\ Len(warnings) = 1
    /\ fx25_frame # fx_call.before

(***************************************************************************)
(* rs_decoding_binary.c: decode_file and main, the decoder as a program.   *)
(***************************************************************************)
\* the size written for the last block: K less the trailing zero bytes
TrimmedSize(block) ==
    LET nz == {i \in 0..(K - 1) : block[i] # 0}
    IN  IF nz = {} THEN 0
        ELSE 1 + CHOOSE i \in nz : \A k \in nz : k <= i

\* the block of decode_file's next fread: the bytes read, zero padded
NextBlock(file, pos) ==
    LET bytes_read == IF Len(file) - pos < N THEN Len(file) - pos ELSE N
    IN  Arr([i \in 0..(N - 1) |-> IF i < bytes_read THEN file[pos + i + 1]
                                  ELSE 0])

\* decode_file without the memcpy of the received word: the block the
\* decoder left is written whatever its result
uncorrectable_keeps_partial(received_block, r) == r.corrected

\* decode_file: the block that is written, which is the received word when
\* rs_decode_block returned -1 and the decoder's output otherwise
uncorrectable_policy(received_block, r) ==
    IF r.status = 0 - 1 THEN received_block ELSE r.corrected

(***************************************************************************)
(* Inputs of the decoder.                                                  *)
(***************************************************************************)
\* most whole blocks of an input file
MaxBlocks == 2

\* a word with all syndromes zero: the coefficients of the generator
\* polynomial, lowest first, then zeros
GeneratorWord ==
    <<88, 172, 55, 142, 20, 253, 138, 24, 185, 179, 47, 148, 228, 253, 55,
      59, 12, 225, 197, 176, 157, 33, 33, 162, 194, 16, 126, 54, 174, 52, 64,
      116, 1>> \o [k \in 1..(N - 33) |-> 0]

\* that word with its first byte changed, and with the seven bytes of
\* BurstAt changed
DamagedWord == [GeneratorWord EXCEPT ![1] = Xor(@, 72)]
BurstWord ==
    [k \in 1..N |-> IF (k - 1) \in BurstAt THEN Xor(GeneratorWord[k], 165)
                    ELSE GeneratorWord[k]]

Words == { GeneratorWord, DamagedWord, BurstWord }

\* the bytes of a file that does not end on a block boundary
Tails == { <<>>, [k \in 1..100 |-> 7] }

RECURSIVE Join(_)
Join(words) == IF words = <<>> THEN <<>> ELSE Head(words) \o Join(Tail(words))

Files ==
    { Join(ws) \o tail :
        ws \in UNION { [1..n -> Words] : n \in 0..MaxBlocks }, tail \in Tails }

(***************************************************************************)
(* The decoder as a state machine.                                         *)
(***************************************************************************)
DFInit ==
    /\ pc = "df_boot"
    /\ layout \in Layouts
    /\ gf_exp = [i \in 0..511 |-> 0]
    /\ gf_log = [i \in 0..255 |-> 0]
    /\ generator = [i \in 0..PARITY |-> 0]
    /\ data = <<>>
    /\ codeword = <<>>
    /\ received = <<>>
    /\ nerr = 0
    /\ syndromes = <<>>
    /\ lambda = <<>>
    /\ omega = <<>>
    /\ deg_lambda = 0
    /\ corrected = <<>>
    /\ status = 0
    /\ in_file \in Files
    /\ in_pos = 0
    /\ total_blocks = 0
    /\ block_count = 0
    /\ corrected_blocks = 0
    /\ failed_blocks = 0
    /\ blocks_log = <<>>
    /\ exit_code = 0
    /\ AXIdle
    /\ FXIdle
    /\ PipeIdle

\* main: init_galois_field()
DfInitGaloisField ==
    /\ pc = "df_boot"
    /\ LET t == init_galois_field(gf_exp, gf_log)
       IN  /\ gf_exp' = t.e
           /\ gf_log' = t.l
    /\ pc' = "df_open"
    /\ UNCHANGED <<generator, rsvars_block, axvars, fxvars, dfvars,
                   pipevars>>

\* decode_file: both files open, total_blocks is computed
DfOpen ==
    /\ pc = "df_open"
    /\ total_blocks' = Len(in_file) \div N
    /\ pc' = "df_loop"
    /\ UNCHANGED <<in_file, in_pos, block_count, corrected_blocks,
                   failed_blocks, blocks_log, exit_code>>
    /\ UNCHANGED <<gf_exp, gf_log, generator, rsvars_block, axvars, fxvars,
                   pipevars>>

\* decode_file: a file cannot be opened; decode_file returns -1 and main
\* returns it
DfOpenFails ==
    /\ pc = "df_open"
    /\ exit_code' = (0 - 1) % 256
    /\ pc' = "df_exit"
    /\ UNCHANGED <<in_file, in_pos, total_blocks, block_count,
                   corrected_blocks, failed_blocks, blocks_log>>
    /\ UNCHANGED <<gf_exp, gf_log, generator, rsvars_block, axvars, fxvars,
                   pipevars>>

\* decode_file: one iteration of the loop; fwrite writes all or, failing,
\* fewer of the bytes
DfBlock ==
    /\ pc = "df_loop"
    /\ in_pos < Len(in_file)
    /\ \E received_block \in {NextBlock(in_file, in_pos)} :
       \E r \in {rs_decode_block(received_block)} :
       \E corrected_block \in {uncorrectable_policy(received_block, r)} :
       \E write_size \in {IF block_count + 1 = total_blocks
                          THEN TrimmedSize(corrected_block) ELSE K} :
          /\ failed_blocks' = failed_blocks + (IF r.status = 0 - 1 THEN 1
                                                ELSE 0)
          /\ corrected_blocks' = corrected_blocks + (IF r.status > 0 THEN 1
                                                      ELSE 0)
          /\ \E n \in {write_size} \cup
                       (IF write_size > 0 THEN {0, write_size - 1} ELSE {}) :
                /\ blocks_log' = Append(blocks_log,
                      [received |-> received_block, result |-> r.status,
                       decoded |-> r.corrected, write_size |-> write_size,
                       written |-> [k \in 1..n |-> corrected_block[k - 1]]])
                /\ pc' = IF n # write_size THEN "df_break" ELSE "df_loop"
    /\ in_pos' = IF Len(in_file) - in_pos < N THEN Len(in_file)
                 ELSE in_pos + N
    /\ block_count' = block_count + 1
    /\ UNCHANGED <<in_file, total_blocks, exit_code>>
    /\ UNCHANGED <<gf_exp, gf_log, generator, rsvars_block, axvars, fxvars,
                   pipevars>>

\* decode_file: the loop is over or was left; decode_file returns 0 and
\* main returns it
DfReturn ==
    /\ \/ pc = "df_break"
       \/ pc = "df_loop" /\ in_pos >= Len(in_file)
    /\ exit_code' = 0
    /\ pc' = "df_exit"
    /\ UNCHANGED <<in_file, in_pos, total_blocks, block_count,
                   corrected_blocks, failed_blocks, blocks_log>>
    /\ UNCHANGED <<gf_exp, gf_log, generator, rsvars_block, axvars, fxvars,
                   pipevars>>

DFNext ==
    \/ DfInitGaloisField
    \/ DfOpen
    \/ DfOpenFails
    \/ DfBlock
    \/ DfReturn

SpecDF == DFInit /\ [][DFNext]_vars

(***************************************************************************)
(* Claims about decode_file.                                               *)
(***************************************************************************)
\* the number of blocks fread delivers from a file: the whole blocks and
\* the partial block after them
BlocksRead(file) == (Len(file) + N - 1) \div N

\* the loop iterations whose decode returned -1, and whether some fwrite
\* wrote fewer bytes than asked
FailedRecords == {i \in 1..Len(blocks_log) : blocks_log[i].result = 0 - 1}
WriteFailed ==
    \E i \in 1..Len(blocks_log) :
       Len(blocks_log[i].written) # blocks_log[i].write_size

\* C11: a block for which rs_decode_block returns -1 is written as the
\* received word, without the corrections the decoder had applied, and
\* counts once in failed_blocks; the loop goes on after it, so that when
\* no write failed every block of the file has been read, decoded and
\* written at the end, block_count is the number of blocks read, and
\* corrected_blocks + failed_blocks is at most block_count.
C11_UncorrectablePolicy ==
    /\ \A i \in 1..Len(blocks_log) :
          /\ blocks_log[i].received = NextBlock(in_file, (i - 1) * N)
          /\ blocks_log[i].result = 0 - 1 =>
                \A k \in 1..Len(blocks_log[i].written) :
                   blocks_log[i].written[k] = blocks_log[i].received[k - 1]
          /\ i < Len(blocks_log) =>
                Len(blocks_log[i].written) = blocks_log[i].write_size
    /\ failed_blocks = Cardinality(FailedRecords)
    /\ block_count = Len(blocks_log)
    /\ corrected_blocks + failed_blocks <= block_count
    /\ (pc = "df_exit" /\ exit_code = 0 /\ ~WriteFailed) =>
          block_count = BlocksRead(in_file)

\* a block the decoder changed and then gave up on was written as it was
\* received, and the block after it was decoded and written too
C11_Witness ==
    /\ pc = "df_exit"
    /\ ~WriteFailed
    /\ \E i \in FailedRecords :
          /\ i < Len(blocks_log)
          /\ \E k \in 0..(blocks_log[i].write_size - 1) :
                blocks_log[i].decoded[k] # blocks_log[i].received[k]
          /\ blocks_log[i + 1].result >= 0
          /\ blocks_log[i + 1].write_size > 0
    /\ failed_blocks >= 1

\* the block handed to fwrite in iteration i of the loop
OutputBlock(i) ==
    uncorrectable_policy(blocks_log[i].received,
                         [status |-> blocks_log[i].result,
                          corrected |-> blocks_log[i].decoded])

\* C12: whatever the length of the input file, every block but the last
\* one read is written with exactly K bytes, and the last block read is
\* written as its first K bytes without their trailing zero bytes.
C12_OutputSizing ==
    \A i \in 1..Len(blocks_log) :
       blocks_log[i].write_size =
          IF i = BlocksRead(in_file) THEN TrimmedSize(OutputBlock(i)) ELSE K

\* C14: the decoder exits with 0 only when every block was decoded, clean
\* or corrected, and every write succeeded; a file that cannot be opened,
\* a failed write, and a block that could not be corrected each give an
\* exit code other than 0.
C14_ExitStatus ==
    pc = "df_exit" =>
       (exit_code = 0 => FailedRecords = {} /\ ~WriteFailed)

(***************************************************************************)
(* Claims about the Galois field tables.                                   *)
(***************************************************************************)
\* the tables are each other's inverse, gf_exp repeats with period 255 up
\* to index 511, and log(0) is the marker 255
TablesInverse ==
    /\ \A x \in 1..255 : gf_exp[gf_log[x]] = x
    /\ \A i \in 0..254 : gf_log[gf_exp[i]] = i
    /\ \A i \in 0..511 : gf_exp[i] = gf_exp[i % 255]
    /\ gf_log[0] = 255

\* C13: once init_galois_field has run, gf_exp[gf_log[x]] = x for x in
\* 1..255, gf_log[gf_exp[i]] = i for i in 0..254, gf_exp[i] =
\* gf_exp[i mod 255] for i in 0..511 and gf_log[0] = 255, and no step of
\* the encoder or the decoder after it changes either table.
C13_TableInvariants ==
    /\ [](pc # "boot" => TablesInverse)
    /\ [][pc # "boot" => UNCHANGED <<gf_exp, gf_log>>]_vars

\* a block has been encoded, damaged and decoded with the tables in place
C13_Witness ==
    /\ pc = "decoded"
    /\ nerr > 0
    /\ gf_exp[1] = ALPHA
    /\ gf_exp[256] = ALPHA
    /\ gf_log[ALPHA] = 1

(***************************************************************************)
(* Claims about the Chien search.                                          *)
(***************************************************************************)
\* the positions at which the Chien loop of the last decode found a root,
\* and the positions the loop reached before it returned
ChienRoots == {i \in 0..(N - 1) : ChienSum(lambda, deg_lambda, i) = 0}
ChienVisited ==
    {i \in 0..(N - 1) : Cardinality({k \in ChienRoots : k < i}) <= T}

\* Lambda(alpha^(-i)) in GF(2^8): alpha^(-i*j) is the table entry at
\* (-i*j) mod 255, which lies in 0..254
LambdaAt(i) ==
    XorRange([j \in 0..deg_lambda |->
                 gf_mult(lambda[j], gf_exp[(0 - i * j) % 255])],
             0, deg_lambda)

\* C15: for a locator of degree 1..32 returned by berlekamp_massey and
\* every position i the Chien loop evaluates, the reads of gf_exp made for
\* the terms lambda[j] * alpha^(-i*j) are at indexes 0..511, and the sum
\* the loop tests against zero is the field value Lambda(alpha^(-i)).
C15_ChienSearch ==
    (pc = "decoded" /\ deg_lambda \in 1..PARITY) =>
       \A i \in ChienVisited :
          /\ \A j \in 0..deg_lambda :
                lambda[j] # 0 =>
                   gf_pow_index(ALPHA, CRem(255 - i * j, 255)) \in 0..511
          /\ ChienSum(lambda, deg_lambda, i) = LambdaAt(i)

(***************************************************************************)
(* The two programs in a row: ax25_packet.c writes packets.txt as text,    *)
(* fx25_packet.c reads it back.  A line is the sequence of its character   *)
(* codes, the newline included.                                            *)
(***************************************************************************)
\* printf's %d of a number that is not negative
RECURSIVE Decimal(_)
Decimal(n) ==
    IF n < 10 THEN <<48 + n>> ELSE Decimal(n \div 10) \o <<48 + (n % 10)>>

\* printf's %02X of a byte
Hex02X(b) ==
    LET digit(v) == IF v < 10 THEN 48 + v ELSE 55 + v
    IN  <<digit(b \div 16), digit(b % 16)>>

\* "Packet ", " (", " bytes):" and "\n" as char codes
TextPacketPrefix == <<80, 97, 99, 107, 101, 116, 32>>
TextOpen == <<32, 40>>
TextBytesClose == <<32, 98, 121, 116, 101, 115, 41, 58>>
NewLine == <<10>>

\* write_frame_hex: the lines it appends to the file
write_frame_hex(frame, length, packet_num) ==
    LET rows == (length + 15) \div 16
        row(r) ==
            LET first == 16 * r
                count == IF length - first < 16 THEN length - first ELSE 16
            IN  [c \in 1..(3 * count) |->
                    IF (c - 1) % 3 = 2 THEN 32
                    ELSE Hex02X(frame[first + ((c - 1) \div 3) + 1])
                             [((c - 1) % 3) + 1]]
                \o NewLine
    IN  <<TextPacketPrefix \o Decimal(packet_num) \o TextOpen
            \o Decimal(length) \o TextBytesClose \o NewLine>>
        \o [r \in 1..rows |-> row(r - 1)]
        \o <<NewLine>>

\* the tests of parse_hex on one character, and strtol's value of a digit
IsSpace(ch) == ch \in {32, 9, 10, 13}
IsHexDigit(ch) == ch \in 48..57 \/ ch \in 65..70 \/ ch \in 97..102
HexValue(ch) ==
    IF ch \in 48..57 THEN ch - 48
    ELSE IF ch \in 65..70 THEN ch - 55
    ELSE ch - 87

\* parse_hex from position p of the line on, with the bytes found so far
RECURSIVE ParseHexFrom(_, _, _, _)
ParseHexFrom(line, p, output, max_len) ==
    IF p > Len(line) \/ Len(output) >= max_len THEN output
    ELSE IF IsSpace(line[p]) \/ ~IsHexDigit(line[p])
    THEN ParseHexFrom(line, p + 1, output, max_len)
    ELSE IF p + 1 <= Len(line) /\ IsHexDigit(line[p + 1])
    THEN ParseHexFrom(line, p + 2,
                      Append(output,
                             16 * HexValue(line[p]) + HexValue(line[p + 1])),
                      max_len)
    ELSE ParseHexFrom(line, p + 1, Append(output, HexValue(line[p])),
                      max_len)

\* parse_hex: the bytes written to output, byte_count being their number
parse_hex(line, max_len) == ParseHexFrom(line, 1, <<>>, max_len)

\* strstr(line, word) is not NULL
StrStr(line, word) ==
    \E p \in 1..(Len(line) - Len(word) + 1) :
       SubSeq(line, p, p + Len(word) - 1) = word

\* "Packet" and "bytes" as char codes
TextPacket == <<80, 97, 99, 107, 101, 116>>
TextBytes == <<98, 121, 116, 101, 115>>

\* read_ax25: one turn of the loop on the line fgets delivered; st holds
\* packets, the filled part of temp_buffer, in_packet and whether the
\* loop's test on packet_count has ended it
ReadAx25Line(line, st, max_packets) ==
    IF Len(st.packets) >= max_packets THEN [st EXCEPT !.ended = TRUE]
    ELSE IF StrStr(line, TextPacket) /\ StrStr(line, TextBytes)
    THEN IF st.in_packet /\ Len(st.temp_buffer) > 0
         THEN [st EXCEPT !.packets = Append(@, st.temp_buffer),
                         !.temp_buffer = <<>>, !.in_packet = TRUE]
         ELSE [st EXCEPT !.in_packet = TRUE]
    ELSE IF st.in_packet
    THEN LET filled == st.temp_buffer
                          \o parse_hex(line,
                                       MAX_FRAME_SIZE - Len(st.temp_buffer))
         IN  IF Len(line) <= 1 /\ Len(filled) > 0
             THEN [st EXCEPT !.packets = Append(@, filled),
                             !.temp_buffer = <<>>, !.in_packet = FALSE]
             ELSE [st EXCEPT !.temp_buffer = filled]
    ELSE st

\* the loop of read_ax25 over the lines lo..hi, run in halves, in order
RECURSIVE ReadAx25Lines(_, _, _, _, _)
ReadAx25Lines(lines, lo, hi, st, max_packets) ==
    IF lo > hi THEN st
    ELSE IF lo = hi THEN ReadAx25Line(lines[lo], st, max_packets)
    ELSE LET mid == (lo + hi) \div 2
             left == ReadAx25Lines(lines, lo, mid, st, max_packets)
         IN  IF left.ended THEN left
             ELSE ReadAx25Lines(lines, mid + 1, hi, left, max_packets)

\* read_ax25: the frames it stores, packet_count being their number; a
\* frame still open at the end of the file is stored too
read_ax25(lines, max_packets) ==
    LET st == ReadAx25Lines(lines, 1, Len(lines),
                            [packets |-> <<>>, temp_buffer |-> <<>>,
                             in_packet |-> FALSE, ended |-> FALSE],
                            max_packets)
    IN  IF st.in_packet /\ Len(st.temp_buffer) > 0
        THEN Append(st.packets, st.temp_buffer)
        ELSE st.packets

\* most whole chunks before the last chunk of a payload
MaxWhole == 2

\* payloads whose last chunk is 1, 198, 199 or 256 bytes long
PipeLengths ==
    { q * MAX_PAYLOAD + c : q \in 0..MaxWhole,
                            c \in {1, K - 25, K - 24, MAX_PAYLOAD} }
PipeInputs ==
    { Ramp(len) : len \in PipeLengths } \cup { Zeros(len) : len \in PipeLengths }

PipeInit ==
    /\ pc = "pipe_start"
    /\ config = MainConfig
    /\ data_buffer = <<>>
    /\ packet = 0
    /\ packets_txt = <<>>
    /\ args = <<>>
    /\ frame_buffer = <<>>
    /\ crc_state = <<>>
    /\ crc_result = 0
    /\ packets_file = <<>>
    /\ ax25_packets = <<>>
    /\ fx25_frame \in Buffers
    /\ fx_i = 0
    /\ fx25_count = 0
    /\ fx_call = <<>>
    /\ fx25_len = 0
    /\ fx25_txt = <<>>
    /\ warnings = <<>>
    /\ RSIdle
    /\ DFIdle

\* ax25_packet.c main: input.txt is read
PipeReadInput ==
    /\ pc = "pipe_start"
    /\ \E file \in PipeInputs :
          /\ data_buffer' = file
          /\ pc' = IF Len(file) <= 0 THEN "pipe_failed"
                   ELSE "pipe_packetizing"
    /\ packet' = 0
    /\ UNCHANGED <<config, packets_txt, args, frame_buffer, crc_state,
                   crc_result>>
    /\ UNCHANGED <<rsvars_data, fxvars, dfvars, pipevars>>

\* packetization: one iteration builds a frame and writes it as text
PipePacketizeStep ==
    /\ pc = "pipe_packetizing"
    /\ packet < TotalPackets(Len(data_buffer))
    /\ \E frame \in {PacketFrame(config, data_buffer, packet)} :
          /\ packets_txt' = Append(packets_txt, frame)
          /\ packets_file' =
                packets_file \o write_frame_hex(frame, Len(frame), packet)
    /\ packet' = packet + 1
    /\ UNCHANGED <<pc, config, data_buffer, args, frame_buffer, crc_state,
                   crc_result>>
    /\ UNCHANGED <<rsvars_data, fxvars, dfvars>>

\* ax25_packet.c has closed packets.txt and returned; fx25_packet.c starts
PipePacketizeDone ==
    /\ pc = "pipe_packetizing"
    /\ packet >= TotalPackets(Len(data_buffer))
    /\ pc' = "fx_start"
    /\ UNCHANGED <<config, data_buffer, packet, packets_txt, args,
                   frame_buffer, crc_state, crc_result>>
    /\ UNCHANGED <<rsvars_data, fxvars, dfvars, pipevars>>

\* fx25_packet.c main: read_ax25 on packets.txt, at most 100 frames
PipeReadAx25 ==
    /\ pc = "fx_ready"
    /\ packets_file # <<>>
    /\ \E read \in {read_ax25(packets_file, 100)} :
          /\ ax25_packets' = read
          /\ pc' = IF Len(read) <= 0 THEN "fx_failed" ELSE "fx_loop"
    /\ UNCHANGED <<fx_i, fx25_count, fx_call, fx25_frame, fx25_len, fx25_txt,
                   warnings>>
    /\ UNCHANGED <<gf_exp, gf_log, generator, rsvars_block, axvars, dfvars,
                   pipevars>>

PipeNext ==
    \/ PipeReadInput
    \/ PipePacketizeStep
    \/ PipePacketizeDone
    \/ Fx25Init
    \/ Fx25InitGenerator
    \/ PipeReadAx25
    \/ FxStep
    \/ FxDone

SpecPipe == PipeInit /\ [][PipeNext]_vars

(***************************************************************************)
(* Claims about the two programs in a row.                                 *)
(***************************************************************************)
\* the payload bytes of fragment k (from 1) of a payload of len bytes
ChunkSize(len, k) ==
    IF k * 256 > len THEN len - (k - 1) * 256 ELSE 256

\* the fragments among the first n whose chunk is at most 198 bytes long
SmallFragments(n) ==
    {k \in 1..n : ChunkSize(Len(data_buffer), k) <= 198}

\* C16: the frame of a chunk of c bytes is 25 + c bytes long and comes
\* back from packets.txt as it was built; generate_fx25 wraps it if and
\* only if c <= 198.  So of a payload of more than 256 bytes every
\* fragment but the last is refused with a warning and gives no FX.25
\* frame, and a payload of one fragment is wrapped only when it is at most
\* 198 bytes long.
C16_PipelineSizeBound ==
    /\ \A k \in 1..Len(packets_txt) :
          Len(packets_txt[k]) = 25 + ChunkSize(Len(data_buffer), k)
    /\ pc \in {"fx_loop", "fx_done"} =>
          /\ ax25_packets = packets_txt
          /\ Len(packets_txt) = CeilOfChunks(Len(data_buffer))
          /\ pc = "fx_done" => fx_i = Len(packets_txt)
          /\ fx25_count = Cardinality(SmallFragments(fx_i))
          /\ Len(fx25_txt) = Cardinality(SmallFragments(fx_i))
          /\ \A k \in 1..fx_i :
                IF k \in SmallFragments(fx_i)
                THEN /\ Wraps(fx25_txt[Cardinality(SmallFragments(k))].frame,
                              packets_txt[k])
                     /\ \A w \in 1..Len(warnings) : warnings[w].i # k - 1
                ELSE \E w \in 1..Len(warnings) :
                        /\ warnings[w].i = k - 1
                        /\ warnings[w].length
                              = 25 + ChunkSize(Len(data_buffer), k)
          /\ Len(data_buffer) > 256 =>
                \A k \in 1..fx_i :
                   k < Len(packets_txt) =>
                      /\ Len(packets_txt[k]) = 281
                      /\ k \notin SmallFragments(fx_i)
          /\ (pc = "fx_done" /\ Len(packets_txt) = 1) =>
                (fx25_count = 1 <=> Len(data_buffer) <= 198)

\* a payload of 256 + 198 bytes went through both programs: its first
\* fragment was refused, its last was wrapped
C16_Witness ==
    /\ pc = "fx_done"
    /\ Len(data_buffer) = 454
    /\ Len(ax25_packets) = 2
    /\ Len(ax25_packets[1]) = 281
    /\ Len(ax25_packets[2]) = 223
    /\ Len(warnings) = 1
    /\ warnings[1].i = 0
    /\ fx25_count = 1
    /\ Wraps(fx25_txt[1].frame, packets_txt[2])

=============================================================================
